---- MODULE Spec2Model ----
(***************************************************************************)
(* Model of gradient_descent_pytorch (GradientShow.py, lines 57-106): the  *)
(* fixed-step gradient-descent loop over a two-element float32 tensor.     *)
(*                                                                         *)
(* Numbers.  A Python float argument (start_point, learning_rate,          *)
(* tolerance) is an exact rational <<n, d>>, d > 0.  A tensor element is a *)
(* binary floating-point value <<tag, m, e>>:                              *)
(*     <<"fin", m, e>>   the number m * 2^e, with m = 0 (and e = 0) or     *)
(*                       2^(Precision-1) <= |m| < 2^Precision              *)
(*     <<"inf", s, 0>>   the infinity of sign s                            *)
(*     <<"nan", 0, 0>>   not-a-number                                      *)
(* Every tensor operation rounds its exact result to the nearest value     *)
(* with a Precision-bit significand, ties to even, as IEEE arithmetic      *)
(* does.  The exponent is unbounded (no overflow to infinity, no           *)
(* subnormals) and zero is unsigned.  item() widens a tensor element to a  *)
(* Python float without changing its value, so a trajectory sample holds   *)
(* tensor values.                                                          *)
(***************************************************************************)
EXTENDS Integers, Sequences, FiniteSets, TLC

\* Significand width of the tensor dtype (dtype=torch.float32, scaled down so
\* that products of two significands stay inside TLC's integers).
Precision == 12

Zero == <<"fin", 0, 0>>
NaN == <<"nan", 0, 0>>
Inf(s) == <<"inf", s, 0>>

IsNaN(a) == a[1] = "nan"
IsInf(a) == a[1] = "inf"
IsFin(a) == a[1] = "fin"
IsZero(a) == a = Zero

AbsInt(n) == IF n < 0 THEN -n ELSE n
SgnInt(n) == IF n < 0 THEN -1 ELSE IF n = 0 THEN 0 ELSE 1

\* Sign used when only the direction of an infinity matters; zero is unsigned
\* and counts as positive.
SignOf(a) == IF a[2] < 0 THEN -1 ELSE 1

\* TLC passes an operator's arguments by name and may evaluate an operand
\* again at every use.  An operation applied to operands that are themselves
\* expressions is therefore written CHOOSE r \in {Op(p, q) : p \in {a},
\* q \in {b}} : TRUE, which is Op(a, b) with each operand evaluated once.
RECURSIVE BitLen(_)
BitLen(n) == IF n = 0 THEN 0 ELSE 1 + (CHOOSE r \in {BitLen(h) : h \in {n \div 2}} : TRUE)

\* The value s * M * 2^e (M >= 0; sticky: the exact value lies strictly
\* between M and M + 1 units), rounded to nearest, ties to even.  With sticky
\* set M must carry at least Precision + 2 bits.
\* (n is the number of bits of M.)
RoundBits(s, M, e, sticky, n) ==
  IF M = 0 THEN Zero
  ELSE
    IF n <= Precision
    THEN <<"fin", s * M * 2^(Precision - n), e - (Precision - n)>>
    ELSE LET k == n - Precision
             q == M \div 2^k
             r == M % 2^k
             half == 2^(k - 1)
             up == r > half \/ (r = half /\ (sticky \/ q % 2 = 1))
             q1 == IF up THEN q + 1 ELSE q
         IN IF q1 = 2^Precision
            THEN <<"fin", s * 2^(Precision - 1), e + k + 1>>
            ELSE <<"fin", s * q1, e + k>>

RoundFloat(s, M, e, sticky) ==
  CHOOSE r \in {RoundBits(s, N, e, sticky, n) : N \in {M}, n \in {BitLen(M)}} : TRUE

FromInt(k) == RoundFloat(IF k < 0 THEN -1 ELSE 1, AbsInt(k), 0, FALSE)

NegOf(a) == IF IsNaN(a) THEN NaN ELSE <<a[1], -a[2], a[3]>>

Neg(a) == CHOOSE v \in {NegOf(p) : p \in {a}} : TRUE

MulOf(a, b) ==
  IF IsNaN(a) \/ IsNaN(b) THEN NaN
  ELSE IF IsInf(a) \/ IsInf(b)
       THEN IF IsZero(a) \/ IsZero(b) THEN NaN ELSE Inf(SignOf(a) * SignOf(b))
  ELSE IF IsZero(a) \/ IsZero(b) THEN Zero
  ELSE RoundFloat(SignOf(a) * SignOf(b), AbsInt(a[2]) * AbsInt(b[2]), a[3] + b[3], FALSE)

Mul(a, b) == CHOOSE v \in {MulOf(p, q) : p \in {a}, q \in {b}} : TRUE

\* Sum of two finite non-zero values, hi the one with the larger exponent.
\* Beyond Precision + 2 places of difference lo is below a quarter of hi's
\* last place and the rounded sum is hi.
AddAligned(hi, lo) ==
  LET d == hi[3] - lo[3] IN
    IF d > Precision + 2 THEN hi
    ELSE LET M == hi[2] * 2^d + lo[2]
         IN RoundFloat(IF M < 0 THEN -1 ELSE 1, AbsInt(M), lo[3], FALSE)

AddOf(a, b) ==
  IF IsNaN(a) \/ IsNaN(b) THEN NaN
  ELSE IF IsInf(a) /\ IsInf(b) THEN (IF a[2] = b[2] THEN a ELSE NaN)
  ELSE IF IsInf(a) THEN a
  ELSE IF IsInf(b) THEN b
  ELSE IF IsZero(a) THEN b
  ELSE IF IsZero(b) THEN a
  ELSE IF a[3] >= b[3] THEN AddAligned(a, b) ELSE AddAligned(b, a)

Add(a, b) == CHOOSE v \in {AddOf(p, q) : p \in {a}, q \in {b}} : TRUE

Sub(a, b) == Add(a, Neg(b))

DivOf(a, b) ==
  IF IsNaN(a) \/ IsNaN(b) THEN NaN
  ELSE IF IsInf(a) THEN (IF IsInf(b) THEN NaN ELSE Inf(SignOf(a) * SignOf(b)))
  ELSE IF IsInf(b) THEN Zero
  ELSE IF IsZero(b) THEN (IF IsZero(a) THEN NaN ELSE Inf(SignOf(a)))
  ELSE IF IsZero(a) THEN Zero
  ELSE LET num == AbsInt(a[2]) * 2^(Precision + 2)
           den == AbsInt(b[2])
       IN RoundFloat(SignOf(a) * SignOf(b), num \div den,
                     a[3] - b[3] - (Precision + 2), num % den # 0)

Div(a, b) == CHOOSE v \in {DivOf(p, q) : p \in {a}, q \in {b}} : TRUE

\* Largest r with r * r <= n, for 0 <= n < 2^30: r is built from the bit b
\* (a power of two, or 0 when done) downwards.
RECURSIVE ISqrtBits(_, _, _)
ISqrtBits(n, r, b) ==
  IF b = 0 THEN r
  ELSE CHOOSE s \in {ISqrtBits(n, r1, b1) :
                     r1 \in {IF (r + b) * (r + b) <= n THEN r + b ELSE r},
                     b1 \in {b \div 2}} : TRUE

ISqrt(n) == ISqrtBits(n, 0, 2^14)

SqrtOf(a) ==
  IF IsNaN(a) THEN NaN
  ELSE IF IsInf(a) THEN (IF a[2] > 0 THEN a ELSE NaN)
  ELSE IF IsZero(a) THEN Zero
  ELSE IF a[2] < 0 THEN NaN
  ELSE LET k == IF a[3] % 2 = 0 THEN Precision + 4 ELSE Precision + 5
           r == CHOOSE s \in {ISqrt(M) : M \in {a[2] * 2^k}} : TRUE
       IN RoundFloat(1, r, (a[3] - k) \div 2, r * r # a[2] * 2^k)

Sqrt(a) == CHOOSE v \in {SqrtOf(p) : p \in {a}} : TRUE

\* Smallest multiple n * 2^k (k >= 0) that is at least lim, as <<n * 2^k, k>>.
RECURSIVE ScaleUp(_, _, _)
ScaleUp(n, k, lim) == IF n >= lim THEN <<n, k>> ELSE ScaleUp(2 * n, k + 1, lim)

\* Conversion of the Python float n / d (d > 0) to the tensor dtype: the
\* nearest representable value.  Factors of two of d only move the exponent.
RECURSIVE FromRatE(_, _, _)
FromRatE(n, d, e) ==
  IF n = 0 THEN Zero
  ELSE IF d % 2 = 0 THEN FromRatE(n, d \div 2, e - 1)
  ELSE LET su == CHOOSE s \in {ScaleUp(m, 0, d * 2^(Precision + 1)) : m \in {AbsInt(n)}} : TRUE
       IN RoundFloat(SgnInt(n), su[1] \div d, e - su[2], su[1] % d # 0)


FromRatOf(r) == FromRatE(r[1], r[2], 0)

FromRat(r) == CHOOSE v \in {FromRatOf(p) : p \in {r}} : TRUE

\* Exact comparison of m * 2^e with n / d for m, n, d > 0: -1, 0 or 1.
RECURSIVE CmpPos(_, _, _, _)
CmpPos(m, e, n, d) ==
  IF d % 2 = 0 THEN CmpPos(m, e + 1, n, d \div 2)
  ELSE IF n % 2 = 0 THEN CmpPos(m, e - 1, n \div 2, d)
  ELSE LET L == m * d IN
    IF e = 0 THEN (IF L < n THEN -1 ELSE IF L = n THEN 0 ELSE 1)
    ELSE IF e > 0
         THEN IF e > 30 THEN 1
              ELSE IF L <= n \div 2^e THEN -1 ELSE 1
    ELSE IF -e > 30 THEN -1
         ELSE LET q == L \div 2^(-e) IN
                IF q < n THEN -1
                ELSE IF q = n /\ L % 2^(-e) = 0 THEN 0 ELSE 1

\* Exact comparison of a tensor value (not NaN) with the Python float r.
CmpRatOf(a, r) ==
  IF IsInf(a) THEN a[2]
  ELSE IF SgnInt(a[2]) # SgnInt(r[1])
       THEN (IF SgnInt(a[2]) < SgnInt(r[1]) THEN -1 ELSE 1)
  ELSE IF a[2] = 0 THEN 0
  ELSE SgnInt(a[2]) * CmpPos(AbsInt(a[2]), a[3], AbsInt(r[1]), r[2])

CmpRat(a, r) == CHOOSE v \in {CmpRatOf(p, q) : p \in {a}, q \in {r}} : TRUE

\* a < r, a == r as Python evaluates them: false when a is NaN.
LessRatOf(a, r) == ~IsNaN(a) /\ CmpRat(a, r) = -1
LessRat(a, r) == CHOOSE v \in {LessRatOf(p, q) : p \in {a}, q \in {r}} : TRUE
EqRatOf(a, r) == ~IsNaN(a) /\ CmpRat(a, r) = 0
EqRat(a, r) == CHOOSE v \in {EqRatOf(p, q) : p \in {a}, q \in {r}} : TRUE

(***************************************************************************)
(* Objectives.  func is the caller's callable; the model supplies booth    *)
(* from the catalogue and four callables a caller can pass:                *)
(*   "sphere"      x1**2 + x2**2                                           *)
(*   "flat_zero"   0 * x1 + 0 * x2       (zero everywhere, gradient zero)  *)
(*   "flat_const"  torch.tensor(0.0)     (zero everywhere, no graph to x)  *)
(*   "div_x1"      x2 / x1                                                 *)
(***************************************************************************)
Funcs == {"booth", "sphere", "flat_zero", "flat_const", "div_x1"}

booth(x1, x2) ==
  LET u == Sub(Add(x1, Mul(FromInt(2), x2)), FromInt(7))
      v == Sub(Add(Mul(FromInt(2), x1), x2), FromInt(5))
  IN Add(Mul(u, u), Mul(v, v))

\* func(x[0], x[1]): the forward evaluation on tensor elements.
Eval(f, p) ==
  CASE f = "booth" -> booth(p[1], p[2])
    [] f = "sphere" -> Add(Mul(p[1], p[1]), Mul(p[2], p[2]))
    [] f = "flat_zero" -> Add(Mul(Zero, p[1]), Mul(Zero, p[2]))
    [] f = "flat_const" -> Zero
    [] f = "div_x1" -> Div(p[2], p[1])

\* Whether func's result carries a graph back to x; y.backward() raises
\* RuntimeError when it does not.
RequiresGrad(f) == f # "flat_const"

\* The gradient reverse-mode differentiation propagates to x from func's
\* result at p, each backward operation rounded like a forward one.
AutoGrad(f, p) ==
  CASE f = "booth" ->
         LET u == Sub(Add(p[1], Mul(FromInt(2), p[2])), FromInt(7))
             v == Sub(Add(Mul(FromInt(2), p[1]), p[2]), FromInt(5))
             du == Mul(FromInt(2), u)
             dv == Mul(FromInt(2), v)
         IN <<Add(du, Mul(FromInt(2), dv)), Add(Mul(FromInt(2), du), dv)>>
    [] f = "sphere" -> <<Mul(FromInt(2), p[1]), Mul(FromInt(2), p[2])>>
    [] f = "flat_zero" -> <<Zero, Zero>>
    [] f = "flat_const" -> <<Zero, Zero>>
    [] f = "div_x1" ->
         <<Mul(FromInt(-1), Div(Div(p[2], p[1]), p[1])), Div(FromInt(1), p[1])>>

(***************************************************************************)
(* The steps of gradient_descent_pytorch.                                  *)
(***************************************************************************)
None == <<>>

\* torch.tensor(start_point, dtype=torch.float32)
ToTensor(sp) == <<FromRat(sp[1]), FromRat(sp[2])>>

\* [x[0].item(), x[1].item(), func(x[0], x[1]).item()] of the initial tensor
InitialSample(f, t) == <<t[1], t[2], Eval(f, t)>>

\* (variants: range(1, max_iters + 2) and range(1, max_iters))
LoopHasNext_OneMore(k, mi) == k <= mi
LoopHasNext_OneFewer(k, mi) == k < mi - 1

\* for i in range(1, max_iters + 1): whether another iteration follows i
LoopHasNext(k, mi) == k < mi

\* (variant: the gradient is never cleared)
ZeroGrad_Skipped(g) == g

\* if x.grad is not None: x.grad.zero_()
ZeroGrad(g) == IF g # None THEN <<Zero, Zero>> ELSE None

\* y.backward(): the gradient at t is added into x.grad (set when None)
Backward(f, t, g) ==
  LET d == AutoGrad(f, t)
  IN IF g = None THEN d ELSE <<Add(g[1], d[1]), Add(g[2], d[2])>>

\* (variant: x += learning_rate * grad)
Update_Ascent(t, lr, grad) ==
  <<Add(t[1], Mul(FromRat(lr), grad[1])), Add(t[2], Mul(FromRat(lr), grad[2]))>>

\* x -= learning_rate * grad; the Python scalar takes the tensor's dtype
Update(t, lr, grad) ==
  <<Sub(t[1], Mul(FromRat(lr), grad[1])), Sub(t[2], Mul(FromRat(lr), grad[2]))>>

\* (variant: the value computed before the update is recorded)
RecordSample_OldValue(f, told, tnew) == <<tnew[1], tnew[2], Eval(f, told)>>

\* [new_x1, new_x2, new_y] from the tensor after the update (told before it)
RecordSample(f, told, tnew) == <<tnew[1], tnew[2], Eval(f, tnew)>>

\* (variants: the newest sample replaces the last one; the list holds the
\* live tensor, so every entry shows the newest sample)
AppendSample_Overwrite(p, s) ==
  IF p = <<>> THEN <<s>> ELSE [p EXCEPT ![Len(p)] = s]
AppendSample_Aliased(p, s) == [k \in 1..(Len(p) + 1) |-> s]

\* path.append(...)
AppendSample(p, s) == Append(p, s)

\* torch.norm(grad)
GradNorm(g) == Sqrt(Add(Mul(g[1], g[1]), Mul(g[2], g[2])))

\* (variant: grad_norm <= tolerance)
ShouldStop_Inclusive(grad, tol) ==
  ~IsNaN(GradNorm(grad)) /\ CmpRat(GradNorm(grad), tol) <= 0

\* grad_norm < tolerance
ShouldStop(grad, tol) == LessRat(GradNorm(grad), tol)

(***************************************************************************)
(* Arguments of the modelled calls.                                        *)
(***************************************************************************)
MaxIters == 3

R(n, d) == <<n, d>>

StartPoints ==
  { <<R(0, 1), R(0, 1)>>, <<R(5, 1), R(5, 1)>>,
    <<R(1, 10), R(1, 5)>>, <<R(1, 1), R(3, 1)>> }

LearningRates == { R(1, 10), R(0, 1), R(-1, 10), R(1, 2) }

Tolerances == { R(0, 1), R(1, 1000000), R(-1, 1), R(100, 1) }

Config(f, sp, lr, mi, tol) ==
  [func |-> f, start_point |-> sp, learning_rate |-> lr, max_iters |-> mi,
   tolerance |-> tol]

\* The sphere run from (5, 5) with learning rate 0.1, 1000 iterations and
\* tolerance 1e-6.
ConvergenceConfig ==
  Config("sphere", <<R(5, 1), R(5, 1)>>, R(1, 10), 1000, R(1, 1000000))

Configs ==
  { Config(f, sp, lr, mi, tol) :
      f \in Funcs, sp \in StartPoints, lr \in LearningRates,
      mi \in (-1)..MaxIters, tol \in Tolerances }
  \cup {ConvergenceConfig}

VARIABLES
  func, start_point, learning_rate, max_iters, tolerance, \* the arguments
  x,        \* the tensor x, None before it is created
  xgrad,    \* x.grad, None until the first backward pass
  path,     \* the list path
  i,        \* loop iterations started
  updates,  \* executions of the update x -= learning_rate * grad
  pc,       \* "initializing", "iterating", "converged", "exhausted",
            \* "failed" (an exception left the call) or "returned"
  result    \* the returned array, <<>> before the return

args == <<func, start_point, learning_rate, max_iters, tolerance>>
vars == <<func, start_point, learning_rate, max_iters, tolerance,
          x, xgrad, path, i, updates, pc, result>>

Init ==
  /\ \E c \in Configs :
       /\ func = c.func
       /\ start_point = c.start_point
       /\ learning_rate = c.learning_rate
       /\ max_iters = c.max_iters
       /\ tolerance = c.tolerance
  /\ x = None
  /\ xgrad = None
  /\ path = <<>>
  /\ i = 0
  /\ updates = 0
  /\ pc = "initializing"
  /\ result = <<>>

\* Lines 68-74: create x, evaluate func there, record the first sample.
Start ==
  /\ pc = "initializing"
  /\ x' = ToTensor(start_point)
  /\ path' = AppendSample(path, InitialSample(func, x'))
  /\ pc' = "iterating"
  /\ UNCHANGED <<args, xgrad, i, updates, result>>

\* Lines 76-104: one pass of the loop body.
Iterate ==
  /\ pc = "iterating"
  /\ LoopHasNext(i, max_iters)
  /\ RequiresGrad(func)
  /\ LET acc == Backward(func, x, ZeroGrad(xgrad))
         grad == acc
         xnew == Update(x, learning_rate, grad)
     IN /\ xgrad' = acc
        /\ x' = xnew
        /\ updates' = updates + 1
        /\ path' = AppendSample(path, RecordSample(func, x, xnew))
        /\ pc' = IF ShouldStop(grad, tolerance) THEN "converged" ELSE "iterating"
  /\ i' = i + 1
  /\ UNCHANGED <<args, result>>

\* Lines 78-85 when func's result has no graph to x: y.backward() raises and
\* the exception leaves the call.
BackwardRaises ==
  /\ pc = "iterating"
  /\ LoopHasNext(i, max_iters)
  /\ ~RequiresGrad(func)
  /\ i' = i + 1
  /\ pc' = "failed"
  /\ UNCHANGED <<args, x, xgrad, path, updates, result>>

\* Line 76: range(1, max_iters + 1) is used up.
Exhaust ==
  /\ pc = "iterating"
  /\ ~LoopHasNext(i, max_iters)
  /\ pc' = "exhausted"
  /\ UNCHANGED <<args, x, xgrad, path, i, updates, result>>

\* Line 106: return np.array(path)
Return ==
  /\ pc \in {"converged", "exhausted"}
  /\ result' = path
  /\ pc' = "returned"
  /\ UNCHANGED <<args, x, xgrad, path, i, updates>>

Next == Start \/ Iterate \/ BackwardRaises \/ Exhaust \/ Return

Spec == Init /\ [][Next]_vars

\* The call runs to its end: nothing suspends it.
FairSpec == Spec /\ WF_vars(Next)

(***************************************************************************)
(* Properties.                                                             *)
(***************************************************************************)
Point(s) == <<s[1], s[2]>>
Last(p) == p[Len(p)]
Terminal == {"converged", "exhausted", "failed", "returned"}

\* C1: once the first sample is recorded, in a call with max_iters >= 1 the
\* trajectory has between 1 and max_iters + 1 samples and exactly one more
\* than the updates performed; the last sample's iteration index i is
\* len(path) - 1; the returned array is that trajectory.
C1_TrajectoryLength ==
  (pc # "initializing" /\ max_iters >= 1) =>
    /\ Len(path) >= 1
    /\ Len(path) <= max_iters + 1
    /\ Len(path) = 1 + updates
    /\ (pc # "failed" => i = Len(path) - 1)
    /\ (pc = "returned" => result = path)

W1_FullLengthReturned ==
  max_iters >= 2 /\ pc = "returned" /\ Len(result) = max_iters + 1 /\ updates = max_iters

\* C2 as stated: the first sample's point is exactly the initial point, its
\* value the objective there, in every state after it is recorded.
C2_FirstSampleExactlyInitial ==
  pc # "initializing" =>
    /\ EqRat(path[1][1], start_point[1])
    /\ EqRat(path[1][2], start_point[2])
    /\ path[1][3] = Eval(func, Point(path[1]))

\* C2 amended: the first sample's point is the initial point rounded to the
\* tensor's float32 dtype (the initial point itself when that is
\* representable), its value is the objective evaluated there, and no later
\* iteration changes it; the returned array starts with it.
C2_FirstSampleIsRoundedInitial ==
  pc # "initializing" =>
    LET p0 == <<FromRat(start_point[1]), FromRat(start_point[2])>>
    IN /\ path[1] = <<p0[1], p0[2], Eval(func, p0)>>
       /\ (pc = "returned" => result[1] = path[1])
       /\ \A c \in {1, 2} :
            start_point[c][2] \in {1, 2, 4, 8} => EqRat(path[1][c], start_point[c])

W2_RoundedStartAfterUpdates ==
  /\ Len(path) >= 3
  /\ x # Point(path[1])
  /\ ~EqRat(path[1][1], start_point[1])

\* C3: an iteration ends the loop through the tolerance check exactly when the
\* norm of the gradient at the pre-update point is strictly below tolerance;
\* that iteration's update is applied and its sample appended all the same,
\* and nothing is updated afterwards.  With tolerance 0 the check never
\* fires and the returned trajectory has max_iters + 1 samples.
C3_StopIffBelowTolerance ==
  /\ [][(pc = "iterating" /\ updates' # updates) =>
          LET g == AutoGrad(func, x)
          IN /\ (pc' = "converged") <=> LessRat(GradNorm(g), tolerance)
             /\ x' = <<Sub(x[1], Mul(FromRat(learning_rate), g[1])),
                       Sub(x[2], Mul(FromRat(learning_rate), g[2]))>>
             /\ Len(path') = Len(path) + 1
             /\ Point(Last(path')) = x']_vars
  /\ [][(pc = "converged") => (i' = i /\ updates' = updates /\ path' = path)]_vars
  /\ [](tolerance[1] = 0 => pc # "converged")
  /\ []((tolerance[1] = 0 /\ max_iters >= 0 /\ pc = "returned")
          => Len(result) = max_iters + 1)

W3_StoppedEarlyAfterUpdate ==
  /\ pc = "converged"
  /\ i < max_iters
  /\ Len(path) = i + 1
  /\ Point(path[i + 1]) # Point(path[i])

\* C4: every call ends (returns or raises); the loop body runs at most
\* max_iters times (not at all when max_iters < 1); the loop is left only
\* through the tolerance check, the end of the range or an exception; and
\* once it is left no update is performed and no sample appended.
C4_Terminates ==
  /\ <>(pc \in {"returned", "failed"})
  /\ [](i <= max_iters \/ i = 0)
  /\ [](updates <= i)
  /\ [][(pc = "iterating" /\ pc' # "iterating") =>
          /\ pc' \in {"converged", "exhausted", "failed"}
          /\ (pc' = "exhausted" => i = max_iters \/ (i = 0 /\ max_iters < 1))]_vars
  /\ [][(pc \in Terminal) =>
          (pc' \in Terminal /\ x' = x /\ path' = path /\ updates' = updates /\ i' = i)]_vars

W4_ExhaustedAfterAllIterations ==
  pc = "returned" /\ i = max_iters /\ max_iters >= 2 /\ LessRat(Zero, tolerance)

\* C5 as stated: for the flat objective a run with max_iters = 1 and a
\* positive tolerance yields a trajectory of length exactly 1.
C5_FlatObjectiveLengthOne ==
  (func = "flat_zero" /\ max_iters = 1 /\ tolerance[1] > 0 /\ pc = "returned")
    => Len(result) = 1

\* C5 amended: with max_iters = 1 every returned trajectory has length
\* exactly 2, whatever the tolerance and also when the single gradient norm
\* is below it (the flat objective included).
C5_MaxItersOneLengthTwo ==
  (max_iters = 1 /\ pc = "returned") => Len(result) = 2

W5_FlatObjectiveLengthTwo ==
  /\ func = "flat_zero" /\ max_iters = 1 /\ tolerance[1] > 0
  /\ pc = "returned" /\ Len(result) = 2
  /\ ShouldStop(AutoGrad(func, Point(result[1])), tolerance)

\* C6: a call with learning_rate <= 0, max_iters < 1 or tolerance < 0 is
\* rejected before any iteration: no gradient is computed, no update is
\* applied and no trajectory is returned.
InvalidConfig == learning_rate[1] <= 0 \/ max_iters < 1 \/ tolerance[1] < 0

C6_InvalidConfigRejected ==
  InvalidConfig =>
    /\ xgrad = None
    /\ updates = 0
    /\ pc \notin {"converged", "exhausted", "returned"}
    /\ result = <<>>

\* C7: when the gradient at the current point is undefined (a component is
\* NaN or infinite) the iteration aborts the run: the point is not updated
\* and no sample is appended.
Undefined(g) == \E c \in {1, 2} : ~IsFin(g[c])

C7_UndefinedGradientAborts ==
  [][(pc = "iterating" /\ i' # i /\ Undefined(AutoGrad(func, x))) =>
       (pc' = "failed" /\ x' = x /\ path' = path)]_vars

\* C8: every sample of the trajectory, while the run goes on and in the
\* returned array, holds the objective's value at the sample's own point, and
\* the newest sample's point is the tensor after the update.
C8_SampleValueAtSamplePoint ==
  /\ \A k \in 1..Len(path) : path[k][3] = Eval(func, Point(path[k]))
  /\ \A k \in 1..Len(result) : result[k][3] = Eval(func, Point(result[k]))
  /\ (pc # "initializing" => Point(Last(path)) = x)

W8_ValueChangedBetweenSamples ==
  /\ pc = "returned"
  /\ Len(result) >= 3
  /\ result[2][3] # result[1][3]
  /\ result[3][3] # result[2][3]

\* C9: the sphere run from (5, 5) with learning rate 0.1, max_iters 1000 and
\* tolerance 1e-6 leaves the loop through the tolerance check after fewer
\* than 1000 iterations, and returns a final point within 1e-3 of (0, 0) with
\* a final value within 1e-6 of 0.
IsConvergenceRun ==
  Config(func, start_point, learning_rate, max_iters, tolerance) = ConvergenceConfig

Within(a, r) == ~IsNaN(a) /\ CmpRat(a, r) <= 0 /\ CmpRat(Neg(a), r) <= 0

C9_SphereConverges ==
  IsConvergenceRun =>
    /\ pc \notin {"exhausted", "failed"}
    /\ (pc = "returned" =>
          /\ i < 1000
          /\ Len(result) < 1001
          /\ Within(GradNorm(Point(Last(result))), R(1, 1000))
          /\ Within(Last(result)[1], R(1, 1000))
          /\ Within(Last(result)[2], R(1, 1000))
          /\ Within(Last(result)[3], R(1, 1000000)))

W9_ConvergenceRunReturned ==
  IsConvergenceRun /\ pc = "returned" /\ Len(result) > 10

\* C10: each sample's point after the first is the previous sample's point
\* minus learning_rate times the gradient of the objective at that previous
\* point, component-wise in the tensor's arithmetic; the gradient used is the
\* one at the current point alone, with nothing left over from earlier
\* iterations.
C10_UpdateRule ==
  /\ \A k \in 2..Len(path) :
       LET prev == Point(path[k - 1])
           g == AutoGrad(func, prev)
           lr == FromRat(learning_rate)
       IN Point(path[k]) = <<Sub(prev[1], Mul(lr, g[1])), Sub(prev[2], Mul(lr, g[2]))>>
  /\ (Len(path) >= 2 => xgrad = AutoGrad(func, Point(path[Len(path) - 1])))

W10_TwoMovingSteps ==
  /\ Len(path) >= 3
  /\ Point(path[2]) # Point(path[1])
  /\ Point(path[3]) # Point(path[2])
  /\ ~Undefined(xgrad)
  /\ xgrad # <<Zero, Zero>>
====
